---- MODULE Spec2Model ----
(***************************************************************************)
(* Incremental multi-channel collection of src/telegram_collector.py:      *)
(* TelegramCollector.get_new_messages_without_duplication with the         *)
(* watermark file of _load_last_message_tracking and                       *)
(* _save_last_message_tracking.  One collection run is a sequence of       *)
(* steps: load, then per username resolve + fetch, then one step per       *)
(* message of the batch, then the watermark update, and at the end the     *)
(* save and the sort.  The Telegram source is the environment: messages    *)
(* arrive in channels and the clock advances.                              *)
(* Application.collect_and_analyze of src/main.py is the caller: it        *)
(* verifies the channels, runs the collection and analyses the corpus.     *)
(***************************************************************************)
EXTENDS Integers, Sequences, FiniteSets, TLC

\* ------------------------------------------------------------------ bounds
MaxHandles == 2      \* length of the configured username list
MaxMsgs == 3         \* messages the source holds, all channels together
MaxTicks == 2        \* times the clock advances
MaxRuns == 2         \* collection runs
MaxVerify == 3       \* length of a username list given to verify_channels
limit == 2           \* page limit of a history request (limit=80 in main.py)

\* ------------------------------------------------------- program constants
fallback_hours == 24

\* the clock advances by three quarters of a fallback window
TickHours == fallback_hours - (fallback_hours \div 4)

None == "None"
\* reply_to_msg_id of a message that replies to nothing (Python's None)
NoParent == 0

Usernames == {"a", "b", "x"}
Channels == {"c1", "c2"}

\* client.get_entity(username).id: two usernames name the same channel
EntityId(username) == IF username = "x" THEN "c2" ELSE "c1"

\* The configured lists, up to renaming: the first username is "a" (the
\* channels are interchangeable, and "b" matters only beside "a").
HandleLists == {h \in [1..MaxHandles -> Usernames] : h[1] = "a"}

MsgIds == 1..MaxMsgs

Max(S) == CHOOSE m \in S : \A n \in S : n <= m

\* --------------------------------------------------------------- datetimes
\* A datetime is a number of hours since the first day of the month, UTC.
\* datetime.isoformat(): the characters of "DDTHH+00:00" as code points.
Digit(n) == 48 + n

isoformat(t) ==
    LET day == 1 + (t \div 24)
        hour == t % 24
    IN  << Digit(day \div 10), Digit(day % 10), 84,
           Digit(hour \div 10), Digit(hour % 10),
           43, 48, 48, 58, 48, 48 >>

\* Python's str <: lexicographic on code points, a proper prefix is smaller
RECURSIVE StrLess(_, _)
StrLess(a, b) ==
    IF b = << >> THEN FALSE
    ELSE IF a = << >> THEN TRUE
    ELSE IF Head(a) # Head(b) THEN Head(a) < Head(b)
    ELSE StrLess(Tail(a), Tail(b))

\* list.sort(key=lambda x: x["date"]): stable, ascending by the date string
RECURSIVE InsertByDate(_, _)
InsertByDate(rec, sorted) ==
    IF sorted = << >> THEN << rec >>
    ELSE IF StrLess(rec.date, sorted[Len(sorted)].date)
         THEN Append(InsertByDate(rec, SubSeq(sorted, 1, Len(sorted) - 1)),
                     sorted[Len(sorted)])
         ELSE Append(sorted, rec)

Unsorted(s) == s

RECURSIVE SortByDate(_)
SortByDate(s) ==
    IF s = << >> THEN << >>
    ELSE InsertByDate(s[Len(s)], SortByDate(SubSeq(s, 1, Len(s) - 1)))

\* ------------------------------------------------------------------- state
VARIABLES
    now,                    \* the clock, in hours
    src,                    \* channel -> sequence of messages; id = index
    file,                   \* data/last_message_tracking.json
    handles,                \* the configured channel_usernames
    runs,                   \* collection runs started
    pc,                     \* position in get_new_messages_without_duplication
    i,                      \* index of the username being processed
    last_message_tracking,  \* the in-memory watermark mapping
    all_messages,
    result,                 \* the list returned by the last completed run
    channel_id, use_id_tracking, since_date, min_id,
    batch,                  \* messages.messages: ids, newest first
    k,                      \* index in batch of the message being processed
    channel_messages,
    loaded,                 \* history: the mapping as loaded by this run
    log,                    \* history: one entry per username processed
    saved,                  \* history: how the save of this run ended
    covered,                \* history: <<channel, id>> returned by a completed
                            \* run and covered by the watermark it persisted
    accessible,             \* accessible_channels of collect_and_analyze
    resolved,               \* history: per username, did verify_channels
                            \* resolve it (<< >> before the verification)
    analysis,               \* history: len(messages) of each analyze_messages
                            \* call of this collect_and_analyze
    store_ops,              \* history: the loads and saves of this run
    interrupted,            \* history: the corpus of the last run whose
                            \* write opened no file
    read,                   \* history: how the load of this run went
    pending,                \* history: the (channel id, message id) of the
                            \* messages whose analysis returned an error
    started                 \* the Telegram client of the collector is
                            \* connected: start() without stop() so far

vars == << now, src, file, handles, runs, pc, i, last_message_tracking,
           all_messages, result, channel_id, use_id_tracking, since_date,
           min_id, batch, k, channel_messages, loaded, log, saved,
           covered, accessible, resolved, analysis, store_ops, interrupted,
           read, pending, started >>

envVars == << now, src >>
chanVars == << channel_id, use_id_tracking, since_date, min_id, batch, k,
               channel_messages >>

appVars == << accessible, resolved, analysis, pending, started >>
histVars == << store_ops, interrupted, read >>

EmptyMap == [c \in {} |-> 0]

NotInterrupted == [some |-> FALSE, keys |-> {}, loaded |-> EmptyMap]

Put(m, c, v) == [x \in (DOMAIN m) \cup {c} |-> IF x = c THEN v ELSE m[x]]

\* nothing has run yet: no message, no watermark file
InitState ==
    /\ now = 0
    /\ src = [c \in Channels |-> << >>]
    /\ file = [kind |-> "missing", data |-> EmptyMap]
    /\ runs = 0
    /\ pc = "idle"
    /\ i = 0
    /\ last_message_tracking = EmptyMap
    /\ all_messages = << >>
    /\ result = << >>
    /\ channel_id = None
    /\ use_id_tracking = FALSE
    /\ since_date = 0
    /\ min_id = 0
    /\ batch = << >>
    /\ k = 0
    /\ channel_messages = << >>
    /\ loaded = EmptyMap
    /\ log = << >>
    /\ saved = None
    /\ covered = {}
    /\ accessible = << >>
    /\ resolved = << >>
    /\ analysis = << >>
    /\ store_ops = << >>
    /\ interrupted = NotInterrupted
    /\ read = None
    /\ pending = {}
    /\ started = FALSE

Init == handles \in HandleLists /\ InitState

\* ------------------------------------------------------------- environment
\* The clock advances between two runs: a run takes no time.
Tick ==
    /\ pc = "idle"
    /\ now < MaxTicks * TickHours
    /\ now' = now + TickHours
    /\ UNCHANGED << src, file, handles, appVars, histVars, runs, pc, i, last_message_tracking,
                    all_messages, result, chanVars, loaded, log, covered, saved >>

\* What a message can carry, by its id: the first message of a channel is
\* plain text, a later one carries a photo (even id) or a document (odd id)
\* and replies to an earlier message.
Contents(id) ==
    IF id = 1 THEN {[media |-> None, reply_to |-> NoParent]}
    ELSE {[media |-> IF id % 2 = 0 THEN "photo" ELSE "document",
           reply_to |-> p] : p \in 1..(id - 1)}

\* A message is posted in a channel: the next id, dated now.
Arrive(c) ==
    /\ pc \in {"idle", "loop"}
    /\ Len(src["c1"]) + Len(src["c2"]) < MaxMsgs
    /\ \E content \in Contents(Len(src[c]) + 1) :
         src' = [src EXCEPT ![c] = Append(@, [date |-> now,
                                             media |-> content.media,
                                             reply_to |-> content.reply_to])]
    /\ UNCHANGED << now, file, handles, appVars, histVars, runs, pc, i, last_message_tracking,
                    all_messages, result, chanVars, loaded, log, covered, saved >>

\* ----------------------------------------------------------- watermark file
\* _load_last_message_tracking: {} when the file is missing or cannot be read
LoadTracking(f, read_ok) ==
    IF f.kind = "ok" /\ read_ok THEN f.data ELSE EmptyMap

\* which branch of _load_last_message_tracking was taken: os.path.exists is
\* false, json.load returned, or the except clause caught open or json.load
ReadStatus(f, read_ok) ==
    IF f.kind = "missing" THEN "missing"
    ELSE IF f.kind = "ok" /\ read_ok THEN "ok"
    ELSE "failed"

\* _save_last_message_tracking: open(tracking_file, 'w') + json.dump inside
\* try/except.  "written": the dump completed; "open_failed": open raised, the
\* file is untouched; "write_failed": the file was truncated by open and the
\* dump raised part-way, leaving text that is no JSON document.
SaveOutcomes == {"written", "open_failed", "write_failed"}

SaveTracking(f, tracking_data, outcome) ==
    CASE outcome = "written" -> [kind |-> "ok", data |-> tracking_data]
      [] outcome = "open_failed" -> f
      [] outcome = "write_failed" -> [kind |-> "corrupt", data |-> EmptyMap]

\* ------------------------------------------------------------ the source
RECURSIVE Descending(_)
Descending(S) ==
    IF S = {} THEN << >> ELSE << Max(S) >> \o Descending(S \ {Max(S)})

\* GetHistoryRequest(peer, limit, min_id, offset_id=0, max_id=0): the newest
\* `lim` messages whose id is above min_id, newest first
History(msgs, minid, lim) ==
    LET eligible == {m \in 1..Len(msgs) : m > minid}
        newest == {m \in eligible : Cardinality({n \in eligible : n > m}) < lim}
    IN  Descending(newest)

\* ------------------------------------------- per-channel retrieval strategy
UseIdTrackingNever(tracking, cid) == FALSE

\* use_id_tracking = channel_id in last_message_tracking and ... > 0
UseIdTracking(tracking, cid) ==
    cid \in DOMAIN tracking /\ tracking[cid] > 0

\* min_id=last_message_id + 1
CursorMinId(last_message_id) == last_message_id + 1

RequestMinId(tracking, cid) ==
    IF UseIdTracking(tracking, cid) THEN CursorMinId(tracking[cid]) ELSE 0

\* since_date = datetime.now(timezone.utc) - timedelta(hours=fallback_hours)
SinceDate(clock) == clock - fallback_hours

TooOldNever(msg_date, since) == FALSE

\* if msg_date < since_date: continue
TooOld(msg_date, since) == msg_date < since

\* message_data of one message
MessageData(id, cid, date, media_path, media_type, reply_id, reply_text) ==
    [ id |-> id, channel_id |-> cid, date |-> isoformat(date),
      media_path |-> media_path, media_type |-> media_type,
      reply_to_msg_id |-> reply_id, reply_to_msg_text |-> reply_text ]

Ids(msgs) == {msgs[j].id : j \in 1..Len(msgs)}

UpdateTrackingNever(tracking, cid, use, msgs) == tracking

\* Update message tracking with the newest message ID
UpdateTracking(tracking, cid, use, msgs) ==
    IF msgs # << >> /\ use
      THEN Put(tracking, cid, Max({Max(Ids(msgs)), tracking[cid]}))
    ELSE IF msgs # << >>
      THEN Put(tracking, cid, Max(Ids(msgs)))
    ELSE tracking

\* all_messages.extend(channel_messages)
Extend(all, msgs) == all \o msgs

MergeOnError(all, msgs) == all \o msgs

\* except Exception: the error is logged; channel_messages is dropped
AfterChannelError(all, msgs) == all

\* ----------------------------------------------------------------- history
Cur == log[Len(log)]
SetCur(e) == [log EXCEPT ![Len(log)] = e]

Entry(username, status, use, wm, ids) ==
    [ username |-> username, channel_id |-> EntityId(username),
      status |-> status, use_id_tracking |-> use, watermark |-> wm,
      clock |-> now, src_len |-> Len(src[EntityId(username)]),
      batch |-> ids, kept |-> {},
      media_failed |-> {}, reply_failed |-> {}, raised_at |-> 0,
      lookups |-> << >>,
      tracking_before |-> last_message_tracking,
      n_before |-> Len(all_messages) ]

ResetChannel ==
    /\ channel_id' = None
    /\ use_id_tracking' = FALSE
    /\ since_date' = 0
    /\ min_id' = 0
    /\ batch' = << >>
    /\ k' = 0
    /\ channel_messages' = << >>

\* one call of _load_last_message_tracking or _save_last_message_tracking,
\* with the number of usernames the loop had finished at the call
StoreOp(op, finished) == [op |-> op, finished |-> finished]

\* ---------------------------------------------------------------- the run
\* all_messages = []; last_message_tracking = self._load_last_message_tracking()
StartRun ==
    /\ pc = "idle"
    /\ runs < MaxRuns
    /\ \E read_ok \in BOOLEAN :
         /\ last_message_tracking' = LoadTracking(file, read_ok)
         /\ loaded' = LoadTracking(file, read_ok)
         /\ read' = ReadStatus(file, read_ok)
    /\ runs' = runs + 1
    /\ all_messages' = << >>
    /\ i' = 1
    /\ pc' = "loop"
    /\ log' = << >>
    /\ store_ops' = << StoreOp("load", 0) >>
    /\ UNCHANGED << envVars, file, handles, appVars, interrupted, result,
                    chanVars, covered, saved >>

\* client.get_entity(username) or get_channel_info(username) raises
ResolveFail ==
    /\ pc = "loop" /\ i <= Len(handles)
    /\ log' = Append(log, Entry(handles[i], "resolve_failed", FALSE, 0, {}))
    /\ all_messages' = AfterChannelError(all_messages, << >>)
    /\ i' = i + 1
    /\ UNCHANGED << envVars, file, handles, appVars, histVars, runs, pc, last_message_tracking,
                    result, chanVars, loaded, covered, saved >>

\* the history request raises
FetchFail ==
    /\ pc = "loop" /\ i <= Len(handles)
    /\ LET cid == EntityId(handles[i])
           use == UseIdTracking(last_message_tracking, cid)
       IN  log' = Append(log, Entry(handles[i], "fetch_failed", use,
                     IF use THEN last_message_tracking[cid] ELSE 0, {}))
    /\ all_messages' = AfterChannelError(all_messages, << >>)
    /\ i' = i + 1
    /\ UNCHANGED << envVars, file, handles, appVars, histVars, runs, pc, last_message_tracking,
                    result, chanVars, loaded, covered, saved >>

\* entity resolved, strategy chosen, the request answered with `ids`
Fetched(ids) ==
    LET cid == EntityId(handles[i])
        use == UseIdTracking(last_message_tracking, cid)
    IN  /\ channel_id' = cid
        /\ use_id_tracking' = use
        /\ since_date' = IF use THEN 0 ELSE SinceDate(now)
        /\ min_id' = RequestMinId(last_message_tracking, cid)
        /\ batch' = ids
        /\ k' = 1
        /\ channel_messages' = << >>
        /\ pc' = "msg"
        /\ log' = Append(log, Entry(handles[i], "fetched", use,
                     IF use THEN last_message_tracking[cid] ELSE 0,
                     {ids[j] : j \in 1..Len(ids)}))
        /\ UNCHANGED << envVars, file, handles, appVars, histVars, runs, i, last_message_tracking,
                        all_messages, result, loaded, covered, saved >>

Fetch ==
    /\ pc = "loop" /\ i <= Len(handles)
    /\ Fetched(History(src[EntityId(handles[i])],
                       RequestMinId(last_message_tracking, EntityId(handles[i])),
                       limit))

\* A source that does not honour min_id: it answers every request with the
\* newest page of the channel (in FallbackMode, where min_id = 0, it is the
\* honest source)
FetchAny ==
    /\ pc = "loop" /\ i <= Len(handles)
    /\ Fetched(History(src[EntityId(handles[i])], 0, limit))

\* if not use_id_tracking: the date filter is for the time-based fallback
FilterApplies(use) == ~use

\* if not use_id_tracking ... if msg_date < since_date: continue
SkipOld ==
    /\ pc = "msg" /\ k <= Len(batch)
    /\ FilterApplies(use_id_tracking)
    /\ TooOld(src[channel_id][batch[k]].date, since_date)
    /\ k' = k + 1
    /\ UNCHANGED << envVars, file, handles, appVars, histVars, runs, pc, i, last_message_tracking,
                    all_messages, result, channel_id, use_id_tracking,
                    since_date, min_id, batch, channel_messages, loaded, log,
                    covered, saved >>

Passes ==
    /\ pc = "msg" /\ k <= Len(batch)
    /\ \/ ~FilterApplies(use_id_tracking)
       \/ ~TooOld(src[channel_id][batch[k]].date, since_date)

\* what client.download_media does for a message that has media
Downloads == {"path", None, "raised"}
\* what client.get_messages(entity, ids=...) does for a parent that is not in
\* the batch
Lookups == {"found", "not_found", "raised"}

BatchIds == {batch[j] : j \in 1..Len(batch)}

TargetedFetchAlways(parent, ids) == parent # NoParent

\* original_msg = next((m for m in messages.messages if m.id ==
\* reply_to_msg_id), None); if not original_msg: client.get_messages(...).
\* The fetch by id is issued for a parent that the batch does not hold.
TargetedFetch(parent, ids) == parent # NoParent /\ parent \notin ids

\* the targeted fetches of the current channel, with the one for message id
\* added when the reply handling of that message was reached and issued one
Looked(id, parent, reached) ==
    IF reached /\ TargetedFetch(parent, BatchIds)
      THEN Append(Cur.lookups, [msg |-> id, parent |-> parent])
      ELSE Cur.lookups

\* The outcomes one message can have: no download without media, no targeted
\* lookup without a parent or with the parent in the batch, and no lookup at
\* all once the download has raised.
Outcomes(msg) ==
    { o \in [download : Downloads, lookup : Lookups] :
        /\ msg.media = None => o.download = None
        /\ (\/ ~TargetedFetch(msg.reply_to, BatchIds)
            \/ o.download = "raised") => o.lookup = "found" }

PropagatesLookup(download, lookup) == download = "raised" \/ lookup = "raised"

\* Which outcomes leave the message loop as an exception: download_media has
\* no try of its own, the reply lookup is inside try/except
Propagates(download, lookup) == download = "raised"

\* reply_to_msg_text after the try/except of the reply lookup
ReplyText(parent, ids, lookup) ==
    IF parent = NoParent THEN None
    ELSE IF parent \in ids THEN "text"
    ELSE IF lookup = "found" THEN "text"
    ELSE None

LookupRaised(msg, o) ==
    /\ TargetedFetch(msg.reply_to, BatchIds)
    /\ o.download # "raised"
    /\ o.lookup = "raised"

\* an exception leaves the message loop: the channel's except logs it
MessageError ==
    /\ Passes
    /\ \E o \in Outcomes(src[channel_id][batch[k]]) :
         /\ Propagates(o.download, o.lookup)
         /\ log' = SetCur([Cur EXCEPT
                !.status = "raised",
                !.raised_at = batch[k],
                !.lookups = Looked(batch[k],
                                   src[channel_id][batch[k]].reply_to,
                                   o.download # "raised"),
                !.media_failed = IF o.download = "raised"
                                 THEN @ \cup {batch[k]} ELSE @,
                !.reply_failed = IF LookupRaised(src[channel_id][batch[k]], o)
                                 THEN @ \cup {batch[k]} ELSE @])
    /\ all_messages' = AfterChannelError(all_messages, channel_messages)
    /\ i' = i + 1
    /\ pc' = "loop"
    /\ ResetChannel
    /\ UNCHANGED << envVars, file, handles, appVars, histVars, runs, last_message_tracking,
                    result, loaded, covered, saved >>

\* one message normalised and appended to channel_messages
ProcessMessage ==
    /\ Passes
    /\ \E o \in Outcomes(src[channel_id][batch[k]]) :
         LET id == batch[k]
             msg == src[channel_id][id]
             rec == MessageData(id, channel_id, msg.date,
                                IF msg.media = None THEN None ELSE o.download,
                                msg.media, msg.reply_to,
                                ReplyText(msg.reply_to, BatchIds, o.lookup))
         IN  /\ ~Propagates(o.download, o.lookup)
             /\ channel_messages' = Append(channel_messages, rec)
             /\ log' = SetCur([Cur EXCEPT
                    !.kept = @ \cup {id},
                    !.lookups = Looked(id, msg.reply_to, TRUE),
                    !.media_failed = IF msg.media # None /\ o.download = None
                                     THEN @ \cup {id} ELSE @,
                    !.reply_failed = IF LookupRaised(msg, o)
                                     THEN @ \cup {id} ELSE @])
    /\ k' = k + 1
    /\ UNCHANGED << envVars, file, handles, appVars, histVars, runs, pc, i, last_message_tracking,
                    all_messages, result, channel_id, use_id_tracking,
                    since_date, min_id, batch, loaded, covered, saved >>

\* the batch is exhausted: watermark update and merge
EndChannel ==
    /\ pc = "msg" /\ k > Len(batch)
    /\ last_message_tracking' =
         UpdateTracking(last_message_tracking, channel_id, use_id_tracking,
                        channel_messages)
    /\ all_messages' = Extend(all_messages, channel_messages)
    /\ log' = SetCur([Cur EXCEPT !.status = "ok"])
    /\ i' = i + 1
    /\ pc' = "loop"
    /\ ResetChannel
    /\ UNCHANGED << envVars, file, handles, appVars, histVars, runs, result, loaded, covered, saved >>

LoopDoneAnywhere(idx, usernames) == TRUE

\* for username in channel_usernames: ... is exhausted
LoopDone(idx, usernames) == idx > Len(usernames)

Covered(msgs, tracking) ==
    { << msgs[j].channel_id, msgs[j].id >> : j \in
        { n \in 1..Len(msgs) : /\ msgs[n].channel_id \in DOMAIN tracking
                               /\ msgs[n].id <= tracking[msgs[n].channel_id] } }

\* self._save_last_message_tracking(last_message_tracking);
\* all_messages.sort(key=lambda x: x["date"]); return all_messages
Save ==
    /\ pc = "loop" /\ LoopDone(i, handles)
    /\ \E outcome \in SaveOutcomes :
         /\ file' = SaveTracking(file, last_message_tracking, outcome)
         /\ saved' = outcome
    /\ result' = SortByDate(all_messages)
    /\ pc' = "done"
    /\ store_ops' = Append(store_ops, StoreOp("save", Len(log)))
    /\ UNCHANGED << envVars, handles, appVars, interrupted, read, runs, i,
                    last_message_tracking, all_messages, chanVars, loaded,
                    log, covered >>

\* os.makedirs in _save_last_message_tracking raises outside its try: the
\* exception leaves get_new_messages_without_duplication
SaveRaise ==
    /\ pc = "loop" /\ LoopDone(i, handles)
    /\ pc' = "error"
    /\ saved' = "makedirs_raised"
    /\ store_ops' = Append(store_ops, StoreOp("save", Len(log)))
    /\ UNCHANGED << envVars, file, handles, appVars, interrupted, read, runs,
                    i,
                    last_message_tracking,
                    all_messages, result, chanVars, loaded, log, covered >>

RecordKeys(msgs) == {<< msgs[j].channel_id, msgs[j].id >> : j \in 1..Len(msgs)}

\* get_new_messages_without_duplication has returned (or raised) into
\* collect_and_analyze: the run's locals are gone
Leave ==
    /\ pc' = "idle"
    /\ i' = 0
    /\ last_message_tracking' = EmptyMap
    /\ all_messages' = << >>
    /\ result' = << >>
    /\ loaded' = EmptyMap
    /\ log' = << >>
    /\ saved' = None
    /\ covered' = IF pc = "done" /\ saved = "written"
                  THEN covered \cup Covered(result, last_message_tracking)
                  ELSE covered
    /\ accessible' = << >>
    /\ resolved' = << >>
    /\ store_ops' = << >>
    /\ interrupted' = IF pc = "done" /\ saved = "open_failed"
                      THEN [some |-> TRUE, keys |-> RecordKeys(result),
                            loaded |-> loaded]
                      ELSE NotInterrupted
    /\ read' = None
    /\ started' = IF pc = "done" THEN FALSE ELSE started
    /\ UNCHANGED << envVars, file, handles, runs, chanVars >>

\* the caller has the list (or the exception) and does not analyse it: the
\* list is empty, or an exception ends collect_and_analyze first
Return ==
    /\ pc \in {"done", "error"}
    /\ Leave
    /\ UNCHANGED << analysis, pending >>

\* ------------------------------------------------- collect_and_analyze
Min(S) == CHOOSE m \in S : \A n \in S : m <= n

VerifyUntilError(channel_usernames, ok) ==
    LET bad == {j \in 1..Len(channel_usernames) : ~ok[j]}
    IN  IF bad = {} THEN channel_usernames
        ELSE SubSeq(channel_usernames, 1, Min(bad) - 1)

\* verify_channels: accessible_channels.append(username) for every username
\* whose get_entity did not raise (ok[j]), in the order of the list
RECURSIVE VerifyChannels(_, _)
VerifyChannels(channel_usernames, ok) ==
    IF channel_usernames = << >> THEN << >>
    ELSE LET n == Len(channel_usernames)
             before == VerifyChannels(SubSeq(channel_usernames, 1, n - 1),
                                      SubSeq(ok, 1, n - 1))
         IN  IF ok[n] THEN Append(before, channel_usernames[n]) ELSE before

\* accessible_channels = await self.collector.verify_channels(channels)
Verify ==
    /\ pc = "idle" /\ resolved = << >>
    /\ runs < MaxRuns
    /\ \E ok \in [1..Len(handles) -> BOOLEAN] :
         /\ resolved' = ok
         /\ accessible' = VerifyChannels(handles, ok)
    /\ analysis' = << >>
    /\ started' = TRUE
    /\ UNCHANGED << envVars, file, handles, runs, pc, i, last_message_tracking,
                    all_messages, result, chanVars, loaded, log, saved,
                    covered, histVars, pending >>

\* if not accessible_channels: ... stop(); return
NoChannels ==
    /\ pc = "idle" /\ resolved # << >>
    /\ accessible = << >>
    /\ resolved' = << >>
    /\ started' = FALSE
    /\ UNCHANGED << envVars, file, handles, runs, pc, i, last_message_tracking,
                    all_messages, result, chanVars, loaded, log, saved,
                    covered, accessible, analysis, histVars, pending >>

\* messages = await self.collector.get_new_messages_without_duplication(
\*     channel_usernames=channels, limit=80)
AppStartRun ==
    /\ resolved # << >>
    /\ accessible # << >>
    /\ StartRun

AnalyzeAlways(messages) == TRUE

\* if not messages: ... return
ShouldAnalyze(messages) == messages # << >>

\* analysis = self.analyzer.analyze_messages(messages=messages, ...) returns
\* an analysis
Analyze ==
    /\ pc = "done"
    /\ ShouldAnalyze(result)
    /\ Leave
    /\ analysis' = Append(analysis, Len(result))
    /\ pending' = pending \ RecordKeys(result)

\* analyze_messages returns {"error": ...} (the API answered with an error
\* status, or an exception was caught): if "error" in analysis: ... return
AnalyzeError ==
    /\ pc = "done"
    /\ ShouldAnalyze(result)
    /\ Leave
    /\ analysis' = Append(analysis, Len(result))
    /\ pending' = pending \cup RecordKeys(result)

Collect ==
    \/ Return
    \/ ResolveFail
    \/ FetchFail
    \/ SkipOld
    \/ MessageError
    \/ ProcessMessage
    \/ EndChannel
    \/ Save
    \/ SaveRaise

Run == StartRun \/ Collect

Env == Tick \/ \E c \in Channels : Arrive(c)

Next == Env \/ Run \/ Fetch

Spec == Init /\ [][Next]_vars

\* collect_and_analyze: verification, collection, analysis
NextApp ==
    \/ Env \/ Verify \/ NoChannels \/ AppStartRun \/ Collect \/ Fetch
    \/ Analyze \/ AnalyzeError

\* the same program against a source that need not honour min_id
NextAnySource == Env \/ Run \/ FetchAny

\* every configured username names a channel of its own
InitAnySource == Init /\ \A j \in 2..Len(handles) : handles[j] = "x"

SpecAnySource == InitAnySource /\ [][NextAnySource]_vars

\* collect_and_analyze over usernames that name a channel each
InitApp == InitAnySource

SpecApp == InitApp /\ [][NextApp]_vars

\* An awaited call of the client (get_entity, GetHistoryRequest,
\* download_media, get_messages) that never responds: the awaits carry no
\* timeout, so the coroutine stays at the await
Hang ==
    /\ \/ pc = "loop" /\ i <= Len(handles)
       \/ /\ Passes
          /\ \/ src[channel_id][batch[k]].media # None
             \/ /\ src[channel_id][batch[k]].reply_to # NoParent
                /\ src[channel_id][batch[k]].reply_to \notin BatchIds
    /\ pc' = "waiting"
    /\ UNCHANGED << envVars, file, handles, appVars, histVars, runs, i,
                    last_message_tracking, all_messages, result, chanVars,
                    loaded, log, saved, covered >>

NextHang == Env \/ Run \/ Fetch \/ Hang

InitHang == InitAnySource

\* the event loop runs whatever can run
SpecHang == InitHang /\ [][NextHang]_vars /\ WF_vars(NextHang)

\* verify_channels on its own, over every username list up to MaxVerify
VerifyLists == UNION {[1..n -> Usernames] : n \in 1..MaxVerify}

InitVerify == handles \in VerifyLists /\ InitState

NextVerify == Verify \/ NoChannels

SpecVerify == InitVerify /\ [][NextVerify]_vars

\* ------------------------------------------------------------------ claims
LogIdx == 1..Len(log)

\* the log entries of this run whose history request was answered
Answered(c) ==
    {j \in LogIdx : log[j].channel_id = c /\ log[j].status \in {"fetched", "ok", "raised"}}

FetchedIds(c) == UNION {log[j].batch : j \in Answered(c)}

Keys(msgs) == {<< msgs[j].channel_id, msgs[j].id >> : j \in 1..Len(msgs)}

\* C1: for a channel that starts the run with a positive watermark W and whose
\* fetches returned the ids i1..in, the mapping handed to the final save holds
\* max(W, i1, ..., in) for the channel, and W when n = 0.  (Stated as the
\* claim states it; the code breaks it when download_media raises.)
C1_WatermarkIsMaxOfFetched ==
    pc = "done" =>
      \A c \in Channels :
        (UseIdTracking(loaded, c) /\ Answered(c) # {}) =>
          /\ c \in DOMAIN last_message_tracking
          /\ last_message_tracking[c] = Max({loaded[c]} \cup FetchedIds(c))

\* the messages of entry j's batch that pass the filter of its mode
Expected(j) ==
    { id \in log[j].batch :
        \/ log[j].use_id_tracking
        \/ src[log[j].channel_id][id].date >= log[j].clock - fallback_hours }

Failed(j) == log[j].status \in {"resolve_failed", "fetch_failed"}

\* the timestamp of the source message a record was made from
DateOf(rec) == src[rec.channel_id][rec.id].date

\* C2: no message returned for a channel processed in CursorMode has an id at
\* or below the watermark active when its fetch started, whatever the source
\* answers.  (Stated as the claim states it; the code filters nothing itself.)
C2_NoIdAtOrBelowWatermark ==
    pc = "done" =>
      \A j \in LogIdx :
        (log[j].status = "ok" /\ log[j].use_id_tracking) =>
          \A n \in 1..Len(result) :
            (result[n].channel_id = log[j].channel_id /\ result[n].id \in log[j].kept)
              => result[n].id > log[j].watermark

\* C3: a record returned by a completed run and covered by the watermark that
\* run persisted is never returned by a later run.  (Stated as the claim
\* states it; a failed read of the file sends the channel back to the window.)
C3_NeverReturnedAgain ==
    pc = "done" => Keys(result) \cap covered = {}

\* C4: the corpus of a run holds one record per (channel id, message id), also
\* when the username list names a channel twice or by two usernames.
C4_OneRecordPerKey ==
    pc = "done" =>
      \A a, b \in 1..Len(result) :
        a # b => << result[a].channel_id, result[a].id >>
                   # << result[b].channel_id, result[b].id >>

C4_Witness ==
    /\ pc = "done"
    /\ Len(log) >= 2
    /\ log[1].channel_id = log[2].channel_id
    /\ log[1].status = "ok" /\ log[2].status = "ok"
    /\ log[1].kept # {}

\* C5: in FallbackMode no message older than the time of the run minus
\* fallback_hours is in the corpus.
C5_FallbackExcludesOld ==
    \A j \in LogIdx :
      ~log[j].use_id_tracking =>
        \A id \in log[j].kept :
          ~(src[log[j].channel_id][id].date < log[j].clock - fallback_hours)

C5_Witness ==
    /\ pc = "done"
    /\ \E j \in LogIdx :
         /\ ~log[j].use_id_tracking
         /\ log[j].status = "ok"
         /\ log[j].kept # {}
         /\ log[j].batch \ log[j].kept # {}
         /\ \E n \in 1..Len(result) : result[n].id \in log[j].kept

\* C6: the returned corpus is sorted non-decreasing by message timestamp.
C6_SortedByTimestamp ==
    pc = "done" =>
      \A a, b \in 1..Len(result) :
        a < b => DateOf(result[a]) <= DateOf(result[b])

C6_Witness ==
    /\ pc = "done"
    /\ result # all_messages
    /\ \E a, b \in 1..Len(result) :
         /\ result[a].channel_id # result[b].channel_id
         /\ DateOf(result[a]) # DateOf(result[b])

\* C7: whatever channels fail resolution or fetch, every other channel is
\* processed and the corpus holds exactly the messages of the non-failing
\* channels.  (Stated as the claim states it; a channel whose download_media
\* raises is dropped although its resolution and fetch succeeded.)
C7_ExactlyTheNonFailingChannels ==
    pc = "done" =>
      /\ Len(log) = Len(handles)
      /\ Keys(result) =
           UNION { {<< log[j].channel_id, id >> : id \in Expected(j)} :
                   j \in {n \in LogIdx : ~Failed(n)} }

\* C8: an exception at any point of a channel's processing leaves the corpus
\* and the channel's watermark entry as they were before the channel.
C8_ErrorLeavesCorpusAndWatermark ==
    (pc = "loop" /\ log # << >> /\ Cur.status # "ok") =>
      /\ last_message_tracking = Cur.tracking_before
      /\ Len(all_messages) = Cur.n_before

C8_Witness ==
    /\ pc = "loop" /\ log # << >>
    /\ Cur.status = "raised"
    /\ Cur.kept # {}

\* C9: a failed media download never removes the message from the corpus: it
\* is emitted with media_path null, and so are the channel's other messages.
\* (Stated as the claim states it; the code lets the exception of
\* client.download_media reach the channel's except.)
C9_MediaFailureKeepsMessage ==
    pc = "done" =>
      \A j \in LogIdx :
        log[j].media_failed # {} =>
          /\ \A id \in log[j].media_failed :
               \E n \in 1..Len(result) :
                 /\ result[n].channel_id = log[j].channel_id
                 /\ result[n].id = id
                 /\ result[n].media_path = None
          /\ \A id \in Expected(j) :
               << log[j].channel_id, id >> \in Keys(result)

\* C10: a reply lookup that raises never leaves the message loop: the message
\* is appended with reply_to_msg_text null and the loop goes on.
C10_ReplyFailureDoesNotPropagate ==
    \A j \in LogIdx :
      \A id \in log[j].reply_failed :
        /\ id \in log[j].kept
        /\ log[j].raised_at # id
        /\ (j = Len(log) /\ pc = "msg") =>
             /\ \E n \in 1..Len(channel_messages) :
                  /\ channel_messages[n].id = id
                  /\ channel_messages[n].reply_to_msg_id # NoParent
                  /\ channel_messages[n].reply_to_msg_text = None
                  /\ batch[n] = id => k > n
        /\ log[j].status = "ok" =>
             \E n \in 1..Len(all_messages) :
               /\ all_messages[n].channel_id = log[j].channel_id
               /\ all_messages[n].id = id
               /\ all_messages[n].reply_to_msg_text = None

C10_Witness ==
    /\ pc = "done"
    /\ \E j \in LogIdx :
         /\ log[j].status = "ok"
         /\ \E id \in log[j].reply_failed :
              /\ \E n \in 1..Len(result) :
                   /\ result[n].id = id
                   /\ result[n].channel_id = log[j].channel_id
                   /\ result[n].reply_to_msg_text = None
              /\ \E later \in log[j].kept : later < id

\* C11: at every point of a run the watermark file holds the complete pre-run
\* mapping or the complete post-run mapping: no step leaves a torn or partial
\* file.  (Stated as the claim states it; the code truncates the file with
\* open(..., 'w') and dumps into it in place.)
C11_FileIsPreOrPostRun ==
    [][ \/ file' = file
        \/ file' = [kind |-> "ok", data |-> last_message_tracking] ]_vars

\* C12: a run whose final watermark write failed does not return its corpus
\* normally.  (Stated as the claim states it; the code logs the exception of
\* the write and returns the list.)
C12_WriteFailureIsSurfaced ==
    saved \in {"open_failed", "write_failed"} => pc # "done"

\* C13: when the write of a run opened no file (the pre-run file is in
\* place) and the collection is run again with the same usernames, limit and
\* fallback_hours, the new corpus holds every record of the interrupted
\* run's corpus, also when messages have arrived in between.  Stated for a
\* rerun that loaded the same mapping and in which no channel failed.  (The
\* code requests the newest `limit` messages, so arrivals push the older
\* ones of the interrupted run off the page.)
C13_RerunContainsInterrupted ==
    ( /\ pc = "done"
      /\ interrupted.some
      /\ loaded = interrupted.loaded
      /\ \A j \in LogIdx : log[j].status = "ok" )
      => interrupted.keys \subseteq RecordKeys(result)

\* C14: in every run the watermark store is read once, before any channel is
\* processed, and written once, after every username of the list has been
\* processed or skipped.
C14_ReadOnceWrittenOnce ==
    /\ pc \in {"loop", "msg"} => store_ops = << StoreOp("load", 0) >>
    /\ pc \in {"done", "error"} =>
         store_ops = << StoreOp("load", 0), StoreOp("save", Len(handles)) >>

C14_Witness ==
    /\ pc = "done"
    /\ Len(store_ops) = 2
    /\ \E j \in LogIdx : Failed(j)
    /\ \E j \in LogIdx : log[j].status = "ok" /\ log[j].kept # {}

\* C15: a channel is in CursorMode exactly when the mapping has a positive
\* entry for its id, and the time-window filter is applied exactly in
\* FallbackMode: in CursorMode every message of the batch is emitted, also
\* one older than the fallback window.
C15_ModeAndFilter ==
    \A j \in LogIdx :
      ~(log[j].status = "resolve_failed") =>
        /\ log[j].use_id_tracking <=>
             ( /\ log[j].channel_id \in DOMAIN log[j].tracking_before
               /\ log[j].tracking_before[log[j].channel_id] > 0 )
        /\ log[j].status = "ok" =>
             log[j].kept =
               IF log[j].use_id_tracking THEN log[j].batch
               ELSE { id \in log[j].batch :
                        src[log[j].channel_id][id].date
                          >= log[j].clock - fallback_hours }

C15_Witness ==
    /\ pc = "done"
    /\ \E j \in LogIdx :
         /\ log[j].status = "ok"
         /\ log[j].use_id_tracking
         /\ \E id \in log[j].kept :
              /\ src[log[j].channel_id][id].date < log[j].clock - fallback_hours
              /\ << log[j].channel_id, id >> \in RecordKeys(result)

\* C16: verify_channels returns exactly the usernames of its input whose
\* resolution succeeded, in input order and as often as they resolved; a
\* username whose resolution raises does not end the verification of the
\* ones after it.
C16_VerifyReturnsResolvedInOrder ==
    resolved # << >> =>
      LET okIdx == {j \in 1..Len(handles) : resolved[j]}
          nth(n) == CHOOSE j \in okIdx :
                      Cardinality({m \in okIdx : m < j}) = n - 1
      IN  /\ Len(accessible) = Cardinality(okIdx)
          /\ \A n \in 1..Len(accessible) : accessible[n] = handles[nth(n)]

C16_Witness ==
    /\ Len(handles) = 3 /\ resolved # << >>
    /\ handles[1] = handles[3]
    /\ resolved[1] /\ ~resolved[2] /\ resolved[3]
    /\ accessible = << handles[1], handles[3] >>

\* C17: the fetcher runs only for the usernames the verification found
\* accessible: a username that failed verification is not resolved or
\* fetched again in that run.  (Stated as the claim states it; the code
\* passes channels, not accessible_channels, to the collector.)
C17_OnlyAccessibleAreCollected ==
    \A j \in LogIdx :
      \E n \in 1..Len(accessible) : accessible[n] = log[j].username

\* what a later load makes of the file: no file is the empty mapping
Persisted(f) ==
    IF f.kind = "missing" THEN [kind |-> "ok", data |-> EmptyMap] ELSE f

\* C18: when no configured channel is accessible (the verification found
\* none, or every username of the collection failed), the run yields no
\* message and leaves the persisted mapping as it was before the run.  An
\* exception of the collector counts as no error: collect_and_analyze
\* catches it.  (Stated as the claim states it; the collection rewrites the
\* file in place also when it has nothing new.)
C18_NoChannelAccessible ==
    [][ ( \/ pc = "idle" /\ resolved # << >> /\ accessible = << >>
          \/ /\ pc = "loop" /\ LoopDone(i, handles)
             /\ \A j \in LogIdx : Failed(j) )
        => ( /\ result' = << >>
             /\ Persisted(file') = Persisted(file) ) ]_vars

\* C19: in one collect_and_analyze, analyze_messages is called at most once,
\* only after the collection has returned, and never with an empty corpus.
C19_AnalysisOnceAfterCollection ==
    /\ Len(analysis) <= 1
    /\ \A n \in 1..Len(analysis) : analysis[n] > 0
    /\ analysis # << >> => (pc = "idle" /\ store_ops = << >>)
    /\ pc # "idle" => analysis = << >>

C19_Witness ==
    /\ pc = "idle"
    /\ analysis # << >>
    /\ runs = MaxRuns

\* C20: a collection run always terminates: a run that has started reaches
\* its return (or its exception), also when an external call of a channel
\* never responds.  (Stated as the claim states it; no await of the
\* collector carries a timeout.)
C20_RunTerminates ==
    (pc = "loop") ~> (pc \in {"done", "error"})

\* C21: a CursorMode request with stored watermark W makes every source
\* message with id above W eligible: when no more than `limit` such messages
\* exist at the fetch, the answer holds them all, message W + 1 included.
\* (Stated as the claim states it; the code passes min_id = W + 1 and the
\* source returns the ids above min_id.)
C21_NextIdIsEligible ==
    \A j \in LogIdx :
      ( /\ log[j].status \in {"fetched", "ok", "raised"}
        /\ log[j].use_id_tracking
        /\ log[j].src_len - log[j].watermark <= limit )
        => \A id \in (log[j].watermark + 1)..log[j].src_len :
             id \in log[j].batch

\* the mapping as the processing of log entry j left it
TrackingAfter(j) ==
    IF j < Len(log) THEN log[j + 1].tracking_before ELSE last_message_tracking

\* C22: when a CursorMode channel's watermark advanced from W_old to W_new in
\* a run, every source message of the channel with id in (W_old, W_new] is
\* in the run's corpus.  (Stated as the claim states it; the request skips
\* message W_old + 1 and returns only the newest `limit` messages.)
C22_NoGapBelowWatermark ==
    pc = "done" =>
      \A j \in LogIdx :
        (log[j].status = "ok" /\ log[j].use_id_tracking) =>
          \A id \in (log[j].watermark + 1)..TrackingAfter(j)[log[j].channel_id] :
            << log[j].channel_id, id >> \in RecordKeys(result)

\* C23: after a FallbackMode fetch that returned a non-empty batch, the
\* channel's watermark entry is the maximum id of the batch, whether or not
\* the messages passed the time-window filter.  (Stated as the claim states
\* it; the code takes the maximum over channel_messages, the messages that
\* passed, and sets nothing when none did.)
C23_FallbackSetsBatchMax ==
    \A j \in LogIdx :
      ( /\ log[j].status = "ok"
        /\ ~log[j].use_id_tracking
        /\ log[j].batch # {}
        /\ (j < Len(log) \/ pc \in {"loop", "done"}) )
        => /\ log[j].channel_id \in DOMAIN TrackingAfter(j)
           /\ TrackingAfter(j)[log[j].channel_id] = Max(log[j].batch)

\* the watermark entries of mapping `after` are those of `before` or above
NoRegress(before, after) ==
    \A c \in DOMAIN before :
      c \in DOMAIN after /\ after[c] >= before[c]

\* C24: a channel's watermark entry never decreases and never disappears once
\* set, within a run (the mapping in memory, through the CursorMode update
\* and the FallbackMode initialisation) and across runs (the mapping in the
\* file, through the final save).  (Stated as the claim states it; a save
\* after a failed read, or a write that fails part-way, drops entries of the
\* file.)
C24_WatermarkNeverRegresses ==
    [][ /\ (pc # "idle" /\ pc' # "idle")
          => NoRegress(last_message_tracking, last_message_tracking')
        /\ NoRegress(Persisted(file).data, Persisted(file').data) ]_vars

C26_ModeFromLoadedMapping ==
    \A j \in LogIdx :
      log[j].status \in {"fetched", "ok", "raised"} =>
        /\ log[j].tracking_before = loaded
        /\ log[j].use_id_tracking = UseIdTracking(loaded, log[j].channel_id)
        /\ log[j].use_id_tracking =>
             log[j].watermark = loaded[log[j].channel_id]

\* C27: a failed read of an existing watermark file is handled like a missing
\* file: the load yields the empty mapping without raising, every channel of
\* the run is processed in FallbackMode, and the save at the end of the run
\* replaces the file's content with exactly the entries set during the run.
\* (Stated as the claim states it; a later occurrence of a channel is in
\* CursorMode, and the save can fail.)
C27_FailedReadIsMissingFile ==
    read = "failed" =>
      /\ loaded = EmptyMap
      /\ \A j \in LogIdx :
           log[j].status \in {"fetched", "ok", "raised", "fetch_failed"}
             => ~log[j].use_id_tracking
      /\ pc \in {"done", "error"}
           => file = [kind |-> "ok", data |-> last_message_tracking]

\* the channel contributed at least one message to the corpus of this run
Contributed(c) ==
    \E j \in LogIdx :
      log[j].channel_id = c /\ log[j].status = "ok" /\ log[j].kept # {}

\* the watermark entry of channel c in mapping m, 0 when it has none
EntryOf(m, c) == IF c \in DOMAIN m THEN m[c] ELSE 0

\* C28: the final save of a run leaves unchanged the watermark entry of every
\* channel that is not named in the username list, that failed, or that
\* produced no message in this run.  (Stated as the claim states it; after a
\* failed read, or with a write that fails part-way, the save drops such
\* entries.)
C28_SaveKeepsOtherEntries ==
    [][ (pc = "loop" /\ LoopDone(i, handles))
        => \A c \in Channels :
             ~Contributed(c)
               => EntryOf(Persisted(file').data, c)
                    = EntryOf(Persisted(file).data, c) ]_vars

\* C29: every message the collector returned is handed to a successful
\* analysis: when analyze_messages returned an error, a later collection
\* that processed the channel returns the messages of that run again.
\* (Stated as the claim states it; the collection has persisted the
\* watermark before the analysis runs, so the next collection is above
\* them.)
C29_ErroredAnalysisIsRetried ==
    pc = "done" =>
      \A key \in pending :
        (\E j \in LogIdx : log[j].channel_id = key[1] /\ log[j].status = "ok")
          => key \in RecordKeys(result)

\* C30: in collect_and_analyze every successful collector.start() is
\* followed by collector.stop() before the run ends: when collect_and_analyze
\* is over, the client is not left connected.  (Stated as the claim states
\* it; an exception of the collection skips the stop().)
C30_StartIsFollowedByStop ==
    (pc = "idle" /\ resolved = << >>) => ~started

====
